---- MODULE Spec2Model ----
(***************************************************************************)
(* ssl_checker (src/main.rs): one dashboard request.  handler calls        *)
(* run_checks, which reads the domain file, spawns one tokio task per      *)
(* retained line (a 5 s timeout racing check_ssl_expiry, then the          *)
(* classification into a SiteResult), joins the tasks in spawn order, and  *)
(* returns the collected results; handler sorts them by days_left and      *)
(* hands them to the template.                                             *)
(*                                                                         *)
(* Time is in whole seconds.  Text lines are sequences of one-character    *)
(* strings.                                                                *)
(***************************************************************************)
EXTENDS Integers, Sequences, FiniteSets, TLC

VARIABLES
    pc,          \* position of the request: "read", "run_checks", "returned", "rendered"
    readFailed,  \* std::fs::read_to_string returned Err (main.rs:81)
    contents,    \* the lines of `contents` (main.rs:81, 84)
    li,          \* index of the next line of the spawn loop (main.rs:84)
    handles,     \* `handles`: one spawned task per retained line (main.rs:82, 88)
    hi,          \* index of the next handle of the join loop (main.rs:110)
    results,     \* `results` (main.rs:80, 111)
    sites,       \* `sites` as given to DashboardTemplate (main.rs:70-76)
    now          \* the wall clock read by Utc::now() and by the TLS verifier

vars == <<pc, readFailed, contents, li, handles, hi, results, sites, now>>

(***************************************************************************)
(* Bounds of the model.                                                    *)
(***************************************************************************)
MaxLines == 2
MaxTicks == 1

(***************************************************************************)
(* Program constants.                                                      *)
(***************************************************************************)
DaySecs == 86400
ExpiryThreshold == 7
ErrorDaysLeft == 9999

\* The clock value at the start of the request (day 1000 after the epoch).
Now0 == 1000 * DaySecs

(***************************************************************************)
(* Input text.                                                             *)
(***************************************************************************)
Whitespace == {" "}
HostChars == {"a", "b"}

\* The lines a domain file is made of: a padded host name, a line that is no
\* host name, a comment, a blank line and an indented comment.
LineSet ==
    { <<" ", "a", " ">>, <<"a", " ", "b">>, <<"#", "a">>, <<" ">>, <<" ", "#">> }

RECURSIVE SeqsUpTo(_, _)
SeqsUpTo(S, n) ==
    IF n = 0 THEN { <<>> }
    ELSE LET shorter == SeqsUpTo(S, n - 1)
         IN  shorter \cup { Append(s, x) : s \in { t \in shorter : Len(t) = n - 1 }, x \in S }

\* The file ["a.example", "# comment", "", "b.example"], in the model's alphabet.
ScenarioA == << <<"a">>, <<"#", " ", "a">>, <<>>, <<"b">> >>

Files == SeqsUpTo(LineSet, MaxLines) \cup {ScenarioA}

\* str::trim
RECURSIVE TrimStart(_)
TrimStart(s) ==
    IF s # <<>> /\ Head(s) \in Whitespace THEN TrimStart(Tail(s)) ELSE s

RECURSIVE TrimEnd(_)
TrimEnd(s) ==
    IF s # <<>> /\ s[Len(s)] \in Whitespace
    THEN TrimEnd(SubSeq(s, 1, Len(s) - 1))
    ELSE s

Trim(s) == TrimEnd(TrimStart(s))

\* Mutant of Skipped: comment lines are not filtered out.
SkippedBlankOnly(domain) == domain = <<>>

\* domain.is_empty() || domain.starts_with('#')
Skipped(domain) == domain = <<>> \/ Head(domain) = "#"

(***************************************************************************)
(* check_ssl_expiry against one server behaviour.                          *)
(***************************************************************************)
\* Seconds from Now0 to the leaf certificate's notAfter.
NotAfterOffsets ==
    { -5 * DaySecs, 0, 6 * DaySecs, 7 * DaySecs, 30 * DaySecs,
      (ErrorDaysLeft + 1) * DaySecs }

\* The largest timestamp DateTime::from_timestamp accepts (DateTime::MAX_UTC),
\* scaled down to the model's integers: it lies beyond every notAfter above.
ChronoMaxTs == 20000 * DaySecs

\* Mutant of FromTimestamp: the range check is left out.
FromTimestampUnchecked(ts) == ts

\* DateTime::from_timestamp(expiry_ts, 0).unwrap_or_default(): the epoch when
\* the timestamp is out of range.
FromTimestamp(ts) == IF -ChronoMaxTs <= ts /\ ts <= ChronoMaxTs THEN ts ELSE 0

Servers ==
    [ connect  : BOOLEAN,                   \* TcpStream::connect succeeds
      trusted  : BOOLEAN,                   \* the chain verifies against the root store
      chain    : {"none", "empty", "leaf"}, \* session.peer_certificates()
      parse    : BOOLEAN,                   \* parse_x509_certificate succeeds
      notAfter : { Now0 + o : o \in NotAfterOffsets } \cup { ChronoMaxTs + DaySecs } ]

\* What timeout(.., check_ssl_expiry(..)).await comes to.  `notAfter` is the
\* notAfter of the certificate the fetch got to look at (expiry_ts, or the time
\* the verifier rejected), 0 when it looked at none.
FetchOk(ts) ==
    [kind |-> "ok", expiry |-> FromTimestamp(ts), reason |-> "", notAfter |-> ts]
FetchErr(reason) == [kind |-> "err", expiry |-> 0, reason |-> reason, notAfter |-> 0]
CertExpired(ts) ==
    [kind |-> "err", expiry |-> 0, reason |-> "handshake error", notAfter |-> ts]
FetchPanic ==
    [kind |-> "panic", expiry |-> 0, reason |-> "index out of bounds", notAfter |-> 0]
Elapsed == [kind |-> "elapsed", expiry |-> 0, reason |-> "", notAfter |-> 0]
NoOutcome == [kind |-> "none", expiry |-> 0, reason |-> "", notAfter |-> 0]

\* ServerName::try_from: a DNS name holds host characters only.
ValidServerName(domain) == \A i \in 1..Len(domain) : domain[i] \in HostChars

\* The value of check_ssl_expiry(domain) when it runs to its end at time t.
CheckSslExpiry(domain, srv, t) ==
    IF ~ValidServerName(domain) THEN FetchErr("invalid dns name")
    ELSE IF ~srv.connect THEN FetchErr("connect error")
    ELSE IF ~srv.trusted THEN FetchErr("handshake error")
    ELSE IF t > srv.notAfter THEN CertExpired(srv.notAfter)
    ELSE IF srv.chain = "none" THEN FetchErr("No certificate found")
    ELSE IF srv.chain = "empty" THEN FetchPanic
    ELSE IF ~srv.parse THEN FetchErr("parse error")
    ELSE FetchOk(srv.notAfter)

(***************************************************************************)
(* The classification of a task's outcome (main.rs:89-106).                *)
(***************************************************************************)
\* TimeDelta::num_days: whole days, truncated toward zero.
NumDays(secs) ==
    IF secs >= 0 THEN secs \div DaySecs ELSE -((-secs) \div DaySecs)

\* expiry.format("%Y-%m-%d"): the calendar day of the timestamp.
FormatDate(ts) == [text |-> "%Y-%m-%d", day |-> ts \div DaySecs]
ExpiryNA == [text |-> "N/A", day |-> 0]

\* Mutant of StatusOf: the threshold taken inclusively.
StatusOfInclusive(days) == IF days <= ExpiryThreshold THEN "EXPIRED" ELSE "VALID"

StatusOf(days) == IF days < ExpiryThreshold THEN "EXPIRED" ELSE "VALID"

\* Mutant of ErrorResult: the error arm leaves days_left at zero.
ErrorResultZeroDays(domain) ==
    [domain |-> domain, status |-> "ERROR", expiry |-> ExpiryNA, days_left |-> 0]

ErrorResult(domain) ==
    [domain |-> domain, status |-> "ERROR", expiry |-> ExpiryNA,
     days_left |-> ErrorDaysLeft]

SuccessResult(domain, expiry, t) ==
    LET days == NumDays(expiry - t)
    IN  [domain |-> domain, status |-> StatusOf(days),
         expiry |-> FormatDate(expiry), days_left |-> days]

\* match timeout(..).await { Ok(Ok(expiry)) => .., _ => .. }
Classify(domain, outcome, t) ==
    IF outcome.kind = "ok"
    THEN SuccessResult(domain, outcome.expiry, t)
    ELSE ErrorResult(domain)

NoResult == [domain |-> <<>>, status |-> "", expiry |-> ExpiryNA, days_left |-> 0]

(***************************************************************************)
(* Vec::sort_by_key: a stable sort by days_left.                           *)
(***************************************************************************)
SortKey(s) == s.days_left

\* x goes after every element whose key is not greater.
RECURSIVE InsertByKey(_, _)
InsertByKey(sorted, x) ==
    IF sorted = <<>> THEN <<x>>
    ELSE IF SortKey(x) < SortKey(Head(sorted)) THEN <<x>> \o sorted
    ELSE <<Head(sorted)>> \o InsertByKey(Tail(sorted), x)

RECURSIVE SortByKey(_)
SortByKey(s) ==
    IF s = <<>> THEN <<>>
    ELSE InsertByKey(SortByKey(SubSeq(s, 1, Len(s) - 1)), s[Len(s)])

(***************************************************************************)
(* State.                                                                  *)
(***************************************************************************)
\* A spawned task: its domain, its position ("pending": in timeout(..).await,
\* "resolved": the await has yielded `outcome`, "finished": it returned `res`,
\* "panicked": it unwound), and `readNow`, the local `now` of the Ok(Ok(..)) arm.
NewTask(domain) ==
    [domain |-> domain, st |-> "pending", outcome |-> NoOutcome,
     readNow |-> 0, res |-> NoResult]

Init ==
    /\ pc = "read"
    /\ readFailed = FALSE
    /\ contents = <<>>
    /\ li = 1
    /\ handles = <<>>
    /\ hi = 1
    /\ results = <<>>
    /\ sites = <<>>
    /\ now = Now0

(***************************************************************************)
(* run_checks.                                                             *)
(***************************************************************************)
\* read_to_string(file_path) returns the file's text.
ReadFile ==
    /\ pc = "read"
    /\ \E f \in Files : contents' = f
    /\ readFailed' = FALSE
    /\ pc' = "run_checks"
    /\ UNCHANGED <<li, handles, hi, results, sites, now>>

\* read_to_string(file_path) fails: unwrap_or_default gives the empty string.
ReadFileFails ==
    /\ pc = "read"
    /\ contents' = <<>>
    /\ readFailed' = TRUE
    /\ pc' = "run_checks"
    /\ UNCHANGED <<li, handles, hi, results, sites, now>>

\* One iteration of `for domain in contents.lines()`.
SpawnLine ==
    /\ pc = "run_checks"
    /\ li <= Len(contents)
    /\ LET domain == Trim(contents[li])
       IN  handles' = IF Skipped(domain) THEN handles
                      ELSE Append(handles, NewTask(domain))
    /\ li' = li + 1
    /\ UNCHANGED <<pc, readFailed, contents, hi, results, sites, now>>

\* What `if let Ok(res) = h.await { results.push(res); }` leaves in results.
Joined(rs, h) == IF h.st = "finished" THEN Append(rs, h.res) ELSE rs

\* Mutant of JoinHandle: the handle is polled once instead of awaited.
JoinHandleNoWait ==
    /\ pc = "run_checks"
    /\ li > Len(contents)
    /\ hi <= Len(handles)
    /\ results' = Joined(results, handles[hi])
    /\ hi' = hi + 1
    /\ UNCHANGED <<pc, readFailed, contents, li, handles, sites, now>>

\* One iteration of `for h in handles`: h.await ends when the task has ended.
JoinHandle ==
    /\ pc = "run_checks"
    /\ li > Len(contents)
    /\ hi <= Len(handles)
    /\ handles[hi].st \in {"finished", "panicked"}
    /\ results' = Joined(results, handles[hi])
    /\ hi' = hi + 1
    /\ UNCHANGED <<pc, readFailed, contents, li, handles, sites, now>>

\* `results` is returned to handler.
ReturnResults ==
    /\ pc = "run_checks"
    /\ li > Len(contents)
    /\ hi > Len(handles)
    /\ pc' = "returned"
    /\ UNCHANGED <<readFailed, contents, li, handles, hi, results, sites, now>>

(***************************************************************************)
(* The spawned task of one domain.                                         *)
(***************************************************************************)
\* Mutant of FetchReturns: the fetch is not dropped when the timer fires, and
\* its late completion replaces the timeout.
FetchReturnsLate(i) ==
    /\ handles[i].st = "pending" \/ handles[i].outcome.kind = "elapsed"
    /\ \E srv \in Servers :
         LET out == CheckSslExpiry(handles[i].domain, srv, now)
         IN  handles' = [handles EXCEPT
                 ![i].st = IF out.kind = "panic" THEN "panicked" ELSE "resolved",
                 ![i].outcome = out]
    /\ UNCHANGED <<pc, readFailed, contents, li, hi, results, sites, now>>

\* Mutant of FetchReturns: a failed fetch is tried again.
FetchReturnsRetry(i) ==
    /\ handles[i].st = "pending"
           \/ (handles[i].st = "resolved" /\ handles[i].outcome.kind = "err")
    /\ \E srv \in Servers :
         LET out == CheckSslExpiry(handles[i].domain, srv, now)
         IN  handles' = [handles EXCEPT
                 ![i].st = IF out.kind = "panic" THEN "panicked" ELSE "resolved",
                 ![i].outcome = out]
    /\ UNCHANGED <<pc, readFailed, contents, li, hi, results, sites, now>>

\* check_ssl_expiry runs to its end before the timer: it returns or panics.
FetchReturns(i) ==
    /\ handles[i].st = "pending"
    /\ \E srv \in Servers :
         LET out == CheckSslExpiry(handles[i].domain, srv, now)
         IN  handles' = [handles EXCEPT
                 ![i].st = IF out.kind = "panic" THEN "panicked" ELSE "resolved",
                 ![i].outcome = out]
    /\ UNCHANGED <<pc, readFailed, contents, li, hi, results, sites, now>>

\* The 5 s timer fires before check_ssl_expiry has returned: timeout(..) yields
\* Err(Elapsed) and the fetch is dropped.
TimerFires(i) ==
    /\ handles[i].st = "pending"
    /\ handles' = [handles EXCEPT ![i].st = "resolved", ![i].outcome = Elapsed]
    /\ UNCHANGED <<pc, readFailed, contents, li, hi, results, sites, now>>

\* Mutant of TaskFinishes: the tasks share one outcome slot, that of the first task.
TaskFinishesShared(i) ==
    /\ handles[i].st = "resolved"
    /\ handles' = [handles EXCEPT
           ![i].st = "finished",
           ![i].readNow = IF handles[1].outcome.kind = "ok" THEN now ELSE 0,
           ![i].res = Classify(handles[i].domain, handles[1].outcome, now)]
    /\ UNCHANGED <<pc, readFailed, contents, li, hi, results, sites, now>>

\* The match arms: the task ends with its SiteResult.
TaskFinishes(i) ==
    /\ handles[i].st = "resolved"
    /\ handles' = [handles EXCEPT
           ![i].st = "finished",
           ![i].readNow = IF handles[i].outcome.kind = "ok" THEN now ELSE 0,
           ![i].res = Classify(handles[i].domain, handles[i].outcome, now)]
    /\ UNCHANGED <<pc, readFailed, contents, li, hi, results, sites, now>>

(***************************************************************************)
(* handler.                                                                *)
(***************************************************************************)
\* Mutant of Aggregate: a sort that does not keep ties in their order.
RECURSIVE Reversed(_)
Reversed(s) == IF s = <<>> THEN <<>> ELSE Append(Reversed(Tail(s)), Head(s))
AggregateUnstable(rs) == SortByKey(Reversed(rs))

\* Mutant of Aggregate: the sort is left out.
AggregateUnsorted(rs) == rs

\* sites.sort_by_key(|s| s.days_left); DashboardTemplate { sites, .. }
Aggregate(rs) == SortByKey(rs)

Handler ==
    /\ pc = "returned"
    /\ sites' = Aggregate(results)
    /\ pc' = "rendered"
    /\ UNCHANGED <<readFailed, contents, li, handles, hi, results, now>>

\* The wall clock advances by one second while the probes run.
Tick ==
    /\ now < Now0 + MaxTicks
    /\ pc = "run_checks"
    /\ now' = now + 1
    /\ UNCHANGED <<pc, readFailed, contents, li, handles, hi, results, sites>>

Next ==
    \/ ReadFile
    \/ ReadFileFails
    \/ SpawnLine
    \/ JoinHandle
    \/ ReturnResults
    \/ Handler
    \/ Tick
    \/ \E i \in 1..Len(handles) : FetchReturns(i)
    \/ \E i \in 1..Len(handles) : TimerFires(i)
    \/ \E i \in 1..Len(handles) : TaskFinishes(i)

Spec == Init /\ [][Next]_vars

(***************************************************************************)
(* The tokio runtime polls every spawned task, the timer wheel fires every *)
(* armed timer, and the request's own future is polled until it completes. *)
(* No fairness is assumed of the network (FetchReturns) or of the clock.   *)
(***************************************************************************)
FairSpec ==
    /\ Spec
    /\ WF_vars(ReadFile \/ ReadFileFails)
    /\ WF_vars(SpawnLine)
    /\ WF_vars(JoinHandle)
    /\ WF_vars(ReturnResults)
    /\ WF_vars(Handler)
    /\ \A i \in 1..MaxLines : WF_vars(i <= Len(handles) /\ TimerFires(i))
    /\ \A i \in 1..MaxLines : WF_vars(i <= Len(handles) /\ TaskFinishes(i))

\* Under FairSpec every request is answered.
Termination == <>(pc = "rendered")

(***************************************************************************)
(* Vocabulary of the properties.                                           *)
(***************************************************************************)
Returned == pc \in {"returned", "rendered"}

\* The trimmed input lines that are neither blank nor comments, in order.
RECURSIVE Retained(_)
Retained(lines) ==
    IF lines = <<>> THEN <<>>
    ELSE LET d == Trim(Head(lines))
         IN  (IF Skipped(d) THEN <<>> ELSE <<d>>) \o Retained(Tail(lines))

\* How many entries of the sequence of records s are for domain d, and how
\* many entries of the sequence s equal d.
CountDomain(s, d) == Cardinality({ k \in 1..Len(s) : s[k].domain = d })
CountValue(s, d) == Cardinality({ k \in 1..Len(s) : s[k] = d })

\* The handles already joined whose task returned a value, and the handle
\* behind the k-th entry of results (the join loop runs in spawn order).
JoinedOk == { i \in 1..(hi - 1) : handles[i].st = "finished" }
Origin(k) == CHOOSE i \in JoinedOk : Cardinality({ j \in JoinedOk : j <= i }) = k

\* What a SiteResult shows besides the domain name.
Display(r) == [status |-> r.status, expiry |-> r.expiry, days_left |-> r.days_left]

(***************************************************************************)
(* C1.  The collection rendered by handler holds exactly one SiteResult    *)
(* per non-blank, non-comment input line, whatever the units' outcomes     *)
(* (success, failure, timeout, crash): none dropped, none duplicated.      *)
(* Violated: the result of a unit that panicked is left out.               *)
(***************************************************************************)
C1_OneResultPerLine ==
    pc = "rendered" =>
        /\ Len(sites) = Len(Retained(contents))
        /\ \A d \in { Trim(contents[k]) : k \in 1..Len(contents) } :
               CountDomain(sites, d) = CountValue(Retained(contents), d)

(***************************************************************************)
(* C2.  A unit that crashed (joining it yields an error) still gets a      *)
(* result in the batch, classified like a timeout: ERROR, "N/A", 9999.     *)
(* Violated: the join loop pushes nothing for such a unit.                 *)
(***************************************************************************)
C2_CrashedUnitReportedAsError ==
    Returned =>
        \A i \in 1..Len(handles) :
            handles[i].st = "panicked" =>
                \E k \in 1..Len(results) :
                    /\ results[k].domain = handles[i].domain
                    /\ results[k].status = "ERROR"
                    /\ results[k].expiry.text = "N/A"
                    /\ results[k].days_left = 9999

(***************************************************************************)
(* C3.  In the rendered sequence every ERROR entry comes after every VALID *)
(* or EXPIRED entry, whatever days_left a read certificate has.            *)
(* Violated: a certificate with 9999 or more days left sorts at or after   *)
(* the ERROR sentinel.                                                     *)
(***************************************************************************)
C3_ErrorsSortLast ==
    pc = "rendered" =>
        \A j, k \in 1..Len(sites) :
            (j < k /\ sites[j].status = "ERROR") => sites[k].status = "ERROR"

(***************************************************************************)
(* C4.  The sequence handler gives to the dashboard is non-decreasing in   *)
(* days_left: each entry's days_left is at most the next entry's.          *)
(***************************************************************************)
C4_SortedByDaysLeft ==
    pc = "rendered" =>
        /\ Len(sites) = Len(results)
        /\ \A k \in 1..(Len(sites) - 1) : sites[k].days_left <= sites[k + 1].days_left

\* handler has reordered a result list that was not in order.
C4_Witness ==
    /\ pc = "rendered"
    /\ Len(results) >= 2
    /\ results[1].days_left > results[2].days_left
    /\ sites[1].days_left < sites[2].days_left

(***************************************************************************)
(* C5.  For every successful fetch the status is EXPIRED exactly when      *)
(* days_left < 7 and VALID otherwise; a certificate expiring exactly 7     *)
(* days after the `now` the task read is VALID, one expiring 6 days after  *)
(* it is EXPIRED.                                                          *)
(***************************************************************************)
C5_ExpiredIffBelowSeven ==
    \A i \in 1..Len(handles) :
        (handles[i].st = "finished" /\ handles[i].outcome.kind = "ok") =>
            LET r == handles[i].res
                left == handles[i].outcome.expiry - handles[i].readNow
            IN  /\ r.status \in {"EXPIRED", "VALID"}
                /\ r.status = "EXPIRED" <=> r.days_left < 7
                /\ left = 7 * 86400 => r.status = "VALID"
                /\ left = 6 * 86400 => r.status = "EXPIRED"

\* One task read a certificate with exactly 7 days left, another one with 6.
C5_Witness ==
    \E i, j \in 1..Len(handles) :
        /\ handles[i].st = "finished" /\ handles[i].outcome.kind = "ok"
        /\ handles[i].outcome.expiry - handles[i].readNow = 7 * 86400
        /\ handles[i].res.days_left = 7 /\ handles[i].res.status = "VALID"
        /\ handles[j].st = "finished" /\ handles[j].outcome.kind = "ok"
        /\ handles[j].outcome.expiry - handles[j].readNow = 6 * 86400
        /\ handles[j].res.days_left = 6 /\ handles[j].res.status = "EXPIRED"

(***************************************************************************)
(* C6.  A domain whose fetch returned a failure, or whose timer fired      *)
(* before the fetch completed, gets status ERROR, expiry "N/A" and         *)
(* days_left 9999, in the task's value and in the results collected.       *)
(***************************************************************************)
C6_FailureOrTimeoutIsError ==
    /\ \A i \in 1..Len(handles) :
           (handles[i].st = "finished" /\ handles[i].outcome.kind \in {"err", "elapsed"}) =>
               /\ handles[i].res.domain = handles[i].domain
               /\ handles[i].res.status = "ERROR"
               /\ handles[i].res.expiry.text = "N/A"
               /\ handles[i].res.days_left = 9999
    /\ Len(results) = Cardinality(JoinedOk)
    /\ \A k \in 1..Len(results) :
           handles[Origin(k)].outcome.kind \in {"err", "elapsed"} =>
               /\ results[k].domain = handles[Origin(k)].domain
               /\ results[k].status = "ERROR"
               /\ results[k].expiry.text = "N/A"
               /\ results[k].days_left = 9999

\* The batch returned the results of a failed fetch and of a timed-out one.
C6_Witness ==
    /\ Returned
    /\ Len(results) = 2
    /\ handles[Origin(1)].outcome.kind = "err"
    /\ handles[Origin(2)].outcome.kind = "elapsed"
    /\ results[1].status = "ERROR"
    /\ results[2].status = "ERROR"

(***************************************************************************)
(* C7.  If a domain's fetch never returns, its timer fires and the batch   *)
(* still completes: run_checks returns with an ERROR result for that       *)
(* domain and a result for every other domain.                             *)
(* Violated in its last part: another domain's unit that panicked has no   *)
(* result (C1, C2).  The batch does complete: Termination under FairSpec.  *)
(***************************************************************************)
C7_TimedOutBatchComplete ==
    (Returned /\ \E i \in 1..Len(handles) : handles[i].outcome.kind = "elapsed") =>
        /\ \A i \in 1..Len(handles) :
               handles[i].outcome.kind = "elapsed" =>
                   \E k \in 1..Len(results) :
                       /\ results[k].domain = handles[i].domain
                       /\ results[k].status = "ERROR"
        /\ \A i \in 1..Len(handles) :
               CountDomain(results, handles[i].domain)
                   = CountDomain(handles, handles[i].domain)

(***************************************************************************)
(* C8.  A domain's SiteResult depends on its own fetch outcome only: each  *)
(* task's value is the classification of its own domain and outcome, a     *)
(* failure or timeout of one domain does not abort the batch, and the      *)
(* entry returned for every other domain is that domain's own value.       *)
(***************************************************************************)
C8_OwnOutcomeOnly ==
    /\ \A i \in 1..Len(handles) :
           handles[i].st = "finished" =>
               handles[i].res =
                   Classify(handles[i].domain, handles[i].outcome, handles[i].readNow)
    /\ Len(results) = Cardinality(JoinedOk)
    /\ \A k \in 1..Len(results) :
           LET h == handles[Origin(k)]
           IN  results[k] = Classify(h.domain, h.outcome, h.readNow)
    /\ Returned =>
           \A i \in 1..Len(handles) :
               handles[i].st # "panicked" =>
                   /\ i \in JoinedOk
                   /\ \E k \in 1..Len(results) : Origin(k) = i

\* One domain failed or timed out and the other domain's certificate was reported.
C8_Witness ==
    /\ Returned
    /\ Len(handles) = 2
    /\ Len(results) = 2
    /\ \E i, j \in 1..2 :
           /\ handles[i].outcome.kind \in {"err", "elapsed"}
           /\ handles[j].outcome.kind = "ok"
           /\ results[j].status \in {"VALID", "EXPIRED"}
           /\ results[i].status = "ERROR"

(***************************************************************************)
(* C9.  When the domain file cannot be read the run is aborted before any  *)
(* probe starts; it is not a successful run over an empty list.            *)
(* Violated: the read error becomes an empty text and the run returns an   *)
(* empty result list that is rendered.                                     *)
(***************************************************************************)
C9_ReadFailureAborts ==
    readFailed => (handles = <<>> /\ ~Returned)

(***************************************************************************)
(* C10.  A failed domain's SiteResult carries the cause of the failure, so *)
(* two domains that failed for different reasons differ in what is shown.  *)
(* Violated: the error arm drops the reason; every failure shows the same. *)
(***************************************************************************)
C10_ReasonRetained ==
    \A i, j \in 1..Len(handles) :
        ( /\ handles[i].st = "finished" /\ handles[i].outcome.kind = "err"
          /\ handles[j].st = "finished" /\ handles[j].outcome.kind = "err"
          /\ handles[i].outcome.reason # handles[j].outcome.reason )
        => Display(handles[i].res) # Display(handles[j].res)

(***************************************************************************)
(* Vocabulary of the properties about the input lines, written without the *)
(* model's Trim and Skipped.                                               *)
(***************************************************************************)
\* The positions of a line that hold something else than whitespace.
Inked(line) == { k \in 1..Len(line) : line[k] # " " }
FirstInk(line) == CHOOSE k \in Inked(line) : \A m \in Inked(line) : k <= m
LastInk(line) == CHOOSE k \in Inked(line) : \A m \in Inked(line) : m <= k

\* A line that, trimmed, is non-empty and does not start with '#'.
Probed(line) == Inked(line) # {} /\ line[FirstInk(line)] # "#"

\* The host names to probe, in input order.
RECURSIVE ExpectedProbes(_)
ExpectedProbes(lines) ==
    IF lines = <<>> THEN <<>>
    ELSE LET l == Head(lines)
         IN  (IF Probed(l) THEN << SubSeq(l, FirstInk(l), LastInk(l)) >> ELSE <<>>)
                 \o ExpectedProbes(Tail(lines))

DomainsOf(s) == [k \in 1..Len(s) |-> s[k].domain]

\* The values of the joined tasks that returned one, in spawn order.
JoinedValues == [k \in 1..Cardinality(JoinedOk) |-> handles[Origin(k)].res]

C12_ExpiredDomainSortsFirst ==
    \A i, j \in 1..Len(handles) :
        ( /\ pc = "rendered"
          /\ Len(handles) = 2
          /\ handles[i].st = "finished"
          /\ handles[i].outcome.notAfter = Now0 + 30 * DaySecs
          /\ handles[i].readNow = Now0
          /\ handles[j].st = "finished"
          /\ handles[j].outcome.notAfter = Now0 - 5 * DaySecs )
        => /\ Len(sites) = 2
           /\ sites[1].days_left = -5
           /\ sites[1].status = "EXPIRED"
           /\ sites[2].days_left = 30

(***************************************************************************)
(* C13.  check_ssl_expiry never raises an unhandled fault: with an empty   *)
(* or absent certificate chain it returns a failure as a value and the     *)
(* unit running it does not crash.                                         *)
(* Violated: an empty chain is indexed at [0] and the task panics.         *)
(***************************************************************************)
C13_FetchNeverFaults ==
    \A i \in 1..Len(handles) :
        /\ handles[i].st # "panicked"
        /\ handles[i].outcome.kind # "panic"

(***************************************************************************)
(* C14.  For every successful fetch days_left is the floor of              *)
(* (not_after - now) in days, for negative differences too.                *)
(* Violated: num_days truncates toward zero; a certificate that expired    *)
(* one second before `now` has days_left 0, not -1.  (Stated for the       *)
(* timestamps that convert; the epoch fallback is C18.)                    *)
(***************************************************************************)
C14_DaysLeftIsFloor ==
    \A i \in 1..Len(handles) :
        ( /\ handles[i].st = "finished"
          /\ handles[i].outcome.kind = "ok"
          /\ handles[i].outcome.expiry = handles[i].outcome.notAfter )
        => handles[i].res.days_left
               = (handles[i].outcome.expiry - handles[i].readNow) \div 86400

(***************************************************************************)
(* C15.  Entries with equal days_left are rendered in the order of their   *)
(* domains in the input, whatever order the units finished in: the results *)
(* are collected in spawn order and the sort keeps ties in that order.     *)
(***************************************************************************)
TiesOf(s, v) == SelectSeq(s, LAMBDA r : r.days_left = v)

C15_TiesKeepInputOrder ==
    /\ DomainsOf(handles) = ExpectedProbes(SubSeq(contents, 1, li - 1))
    /\ results = JoinedValues
    /\ pc = "rendered" =>
           \A v \in { results[k].days_left : k \in 1..Len(results) } :
               TiesOf(sites, v) = TiesOf(JoinedValues, v)

\* Two entries tie at 6 days; the second unit finished before the first (it
\* read the clock earlier) and is still rendered second.
C15_Witness ==
    /\ pc = "rendered"
    /\ Len(handles) = 2
    /\ handles[1].outcome.kind = "ok"
    /\ handles[2].outcome.kind = "ok"
    /\ handles[1].readNow > handles[2].readNow
    /\ handles[1].res.days_left = 6
    /\ handles[2].res.days_left = 6
    /\ handles[1].res # handles[2].res
    /\ sites = << handles[1].res, handles[2].res >>

(***************************************************************************)
(* C16.  run_checks does not return, and handler neither sorts nor         *)
(* renders, while a spawned unit is still running: at the return every     *)
(* line has been handled and every unit has ended (value or crash).        *)
(***************************************************************************)
C16_ReturnsAfterAllUnitsEnd ==
    Returned =>
        /\ li > Len(contents)
        /\ hi > Len(handles)
        /\ \A i \in 1..Len(handles) : handles[i].st \in {"finished", "panicked"}

\* run_checks returned after a unit that timed out and one that read a certificate.
C16_Witness ==
    /\ Returned
    /\ Len(handles) = 2
    /\ handles[1].outcome.kind = "elapsed"
    /\ handles[2].outcome.kind = "ok"
    /\ Len(results) = 2

(***************************************************************************)
(* C17.  Once a domain's timer has fired before its fetch completed, the   *)
(* outcome stays timed out: no later completion of the fetch replaces it,  *)
(* the unit's value can only be the ERROR one, and a finished unit is not  *)
(* touched again.                                                          *)
(***************************************************************************)
C17_Step ==
    \A i \in 1..Len(handles) :
        handles[i].outcome.kind = "elapsed" =>
            /\ handles'[i].outcome = handles[i].outcome
            /\ handles'[i].st \in {"resolved", "finished"}
            /\ handles'[i].st = "finished" => handles'[i].res.status = "ERROR"
            /\ handles[i].st = "finished" => handles'[i] = handles[i]

C17_TimedOutStaysTimedOut == [][C17_Step]_vars

\* A unit whose timer fired has finished and its ERROR value was collected.
C17_Witness ==
    /\ Returned
    /\ \E k \in 1..Len(results) :
           /\ handles[Origin(k)].outcome.kind = "elapsed"
           /\ results[k].status = "ERROR"

(***************************************************************************)
(* C18.  When the certificate's not-after timestamp cannot be converted,   *)
(* check_ssl_expiry returns success with the epoch: the domain is          *)
(* classified from it, EXPIRED with a negative days_left, never ERROR.     *)
(***************************************************************************)
C18_UnconvertibleGivesEpoch ==
    \A i \in 1..Len(handles) :
        handles[i].outcome.notAfter > 20000 * 86400 =>
            /\ handles[i].outcome.kind = "ok"
            /\ handles[i].outcome.expiry = 0
            /\ handles[i].st = "finished" =>
                   /\ handles[i].res.status = "EXPIRED"
                   /\ handles[i].res.days_left < 0
                   /\ handles[i].res.expiry.text # "N/A"

\* A certificate with an out-of-range not-after was read and reported EXPIRED.
C18_Witness ==
    /\ Returned
    /\ \E k \in 1..Len(results) :
           /\ handles[Origin(k)].outcome.notAfter > 20000 * 86400
           /\ results[k].status = "EXPIRED"
           /\ results[k].days_left = -1000

(***************************************************************************)
(* C19.  Whatever the units' outcomes, the output holds no domain that is  *)
(* not a retained input line and no more entries for a domain than the     *)
(* domain has retained lines; one unit is started per retained line, and   *)
(* a unit's fetch is attempted once: an outcome is never replaced.         *)
(***************************************************************************)
C19_Inv ==
    /\ DomainsOf(handles) = ExpectedProbes(SubSeq(contents, 1, li - 1))
    /\ \A s \in {results, sites} :
           \A k \in 1..Len(s) :
               CountDomain(s, s[k].domain)
                   <= CountValue(ExpectedProbes(contents), s[k].domain)

C19_Step ==
    \A i \in 1..Len(handles) :
        handles[i].outcome.kind # "none" => handles'[i].outcome = handles[i].outcome

C19_NoExtraEntriesOneAttempt == []C19_Inv /\ [][C19_Step]_vars

\* A file with the same domain on two lines, one unit crashed: one entry.
C19_Witness ==
    /\ pc = "rendered"
    /\ Len(handles) = 2
    /\ handles[1].domain = handles[2].domain
    /\ handles[1].st = "panicked"
    /\ Len(sites) = 1
    /\ sites[1].domain = handles[2].domain

====
